---- MODULE Spec2Model ----
(***************************************************************************)
(* Model of the API-automation pipeline scripts (fetch collection, run     *)
(* newman, redact, merge history, generate the Allure report, snapshot the *)
(* history, deploy, notify) and of their persistent .history store.        *)
(*                                                                         *)
(* One behaviour is a sequence of process invocations of one script        *)
(* (variant).  The filesystem (.history, allure-results, allure-report)    *)
(* persists between invocations; pc, env, summary, trace are per process.  *)
(*                                                                         *)
(* Environment assumptions of Spec: the system clock advances between two  *)
(* invocations, and the fs calls inside mergeHistory and                    *)
(* saveCurrentRunHistory succeed.  External tools (collection fetch,       *)
(* newman, allure, deployment) and the Redactor may fail.                  *)
(* SpecFs is Spec without the assumption on the fs calls.                  *)
(* SpecLive is Spec over its first invocations, with weak fairness on the  *)
(* steps of a started invocation.                                          *)
(* SpecTrend models generate-allure.js and its reports/trend.json.         *)
(***************************************************************************)
EXTENDS Integers, Sequences, FiniteSets, TLC

\* ------------------------------------------------------------------ bounds
MaxRuns == 4            \* process invocations per behaviour
MaxFailed == 1          \* largest number of failed assertions newman reports
MaxLiveRuns == 2        \* invocations per behaviour of SpecLive
MaxTrendRuns == 12      \* invocations of generate-allure.js per behaviour

\* ------------------------------------------------------- program constants
MergeWindow == 3        \* .slice(0, 3) in mergeHistory
PruneKeep == 3          \* for (let i = 3; ...) in saveCurrentRunHistory
TrendKeep == 10         \* if (trendData.length > 10) in generate-allure.js

\* The scripts of the repository that are modelled.
\*   "history": run-tests.js (second script), callback style, no Redactor
\*   "strict" : promise style, sanitizeAllureResults + maskSensitiveData
\*   "ghpages": callback style, sanitizeAllureResults, gh-pages + Slack
\*   "login"  : callback style, no Redactor, Surge login and password
\*   "legacy" : top-level steps and execSync, no Redactor, no .history
Variants == {"history", "strict", "ghpages", "login", "legacy"}

CallbackVariants == {"history", "ghpages", "login"}
RedactingVariants == {"strict", "ghpages"}

\* Environment values each script reads.
EnvNames(v) ==
    CASE v = "history" -> {"COLLECTION_UID", "POSTMAN_API_KEY", "SURGE_TOKEN"}
      [] v = "strict"  -> {"COLLECTION_UID", "POSTMAN_API_KEY", "SURGE_TOKEN"}
      [] v = "ghpages" -> {"COLLECTION_UID", "POSTMAN_API_KEY",
                           "SLACK_WEBHOOK_URL", "GITHUB_REPOSITORY"}
      [] v = "login"   -> {"COLLECTION_UID", "POSTMAN_API_KEY",
                           "SURGE_LOGIN", "SURGE_PASSWORD"}
      [] v = "legacy"  -> {"COLLECTION_UID", "POSTMAN_API_KEY"}

\* The values runTests checks before doing anything else.
Required(v) ==
    CASE v = "history" -> {"COLLECTION_UID", "POSTMAN_API_KEY", "SURGE_TOKEN"}
      [] v = "strict"  -> {"COLLECTION_UID", "POSTMAN_API_KEY"}
      [] v = "ghpages" -> {"COLLECTION_UID", "POSTMAN_API_KEY",
                           "SLACK_WEBHOOK_URL", "GITHUB_REPOSITORY"}
      [] v = "login"   -> {"COLLECTION_UID", "POSTMAN_API_KEY"}
      [] v = "legacy"  -> {}

\* The values without which the collection request cannot succeed.
FetchNeeds == {"COLLECTION_UID", "POSTMAN_API_KEY"}

\* The values deployToSurge of the login script checks.
SurgeLogin == {"SURGE_LOGIN", "SURGE_PASSWORD"}

\* The file sets the report generator may put into allure-report/history.
ReportHistoryOutputs ==
    {{"history.json"}, {"history.json", "history-trend.json"}}

VARIABLES
    variant,        \* the script that is run
    pc,             \* position of the running process ("idle": none running)
    runs,           \* process invocations started so far
    clock,          \* system clock (new Date())
    env,            \* environment values present in this invocation
    failed,         \* summary.run.stats.assertions.failed of this run
    exitCode,       \* exit code of this invocation, -1: it has not ended
    history,        \* .history: set of entry directories
    targetHistory,  \* allure-results/history
    artifact,       \* content of the attachment the runner wrote this run
    secret,         \* the secret value the runner wrote into it (<<>>: none)
    report,         \* allure-report
    published,      \* what this invocation has put on the deployment target
    slack,          \* the webhook request of this invocation
    log,            \* console messages of this invocation
    trace,          \* phases this invocation has executed, in order
    passes,         \* times the Redactor was applied to artifact
    input,          \* the key/value the artifact was rendered from, if any
    results,        \* entries of allure-results: name and the run that wrote it
    param,          \* a parameter of the result file the runner wrote
    nSaved,         \* snapshots saveCurrentRunHistory has taken (observer)
    trend           \* reports/trend.json: the records, <<>> when absent

vars == <<variant, pc, runs, clock, env, failed, exitCode, history,
          targetHistory, artifact, secret, report, published, slack, log,
          trace, passes, input, results, param, nSaved, trend>>

\* ------------------------------------------------------------ timestamps
Digit(n) == <<"0", "1", "2", "3", "4", "5", "6", "7", "8", "9">>[n + 1]

\* Date.prototype.toISOString: a fixed-width rendering.  The clock counts
\* seconds; the constant date and hour prefix is shortened to "T00:".
toISOString(t) ==
    <<"T", "0", "0", ":", Digit((t \div 10) % 10), Digit(t % 10),
      ".", "0", "0", "0", "Z">>

\* .replace(/[:.]/g, '-')
ReplaceColonDot(s) ==
    [i \in 1..Len(s) |-> IF s[i] \in {":", "."} THEN "-" ELSE s[i]]

RECURSIVE Join(_)
Join(s) == IF s = <<>> THEN "" ELSE Head(s) \o Join(Tail(s))

\* const timestamp = new Date().toISOString().replace(/[:.]/g, '-')
TimestampDateOnly(t) == Join(ReplaceColonDot(toISOString(0)))
Timestamp(t) == Join(ReplaceColonDot(toISOString(t)))

\* ------------------------------------------------------------ the store
NoDir == [exists |-> FALSE, files |-> <<>>]

\* .sort((a, b) => b.time - a.time): newest first.
RECURSIVE SortNewestFirst(_)
SortNewestFirst(S) ==
    IF S = {} THEN <<>>
    ELSE LET e == CHOOSE x \in S : \A y \in S : y.time <= x.time
         IN <<e>> \o SortNewestFirst(S \ {e})

\* .slice(0, n)
Slice(s, n) == SubSeq(s, 1, IF Len(s) < n THEN Len(s) ELSE n)

\* .reverse()
Reverse(s) == [i \in 1..Len(s) |-> s[Len(s) + 1 - i]]

\* `${folder.name}-${file}`
DestNameNoPrefix(folderName, file) == file
DestName(folderName, file) == folderName \o "-" \o file

\* fs.readdirSync(src).forEach(file => fs.copyFileSync(srcFile, destFile))
\* A copy onto an existing destination overwrites it.
RECURSIVE CopyFolder(_, _, _)
CopyFolder(folder, todo, dir) ==
    IF todo = {} THEN dir
    ELSE LET f == CHOOSE x \in todo : TRUE
         IN CopyFolder(folder, todo \ {f},
                (DestName(folder.name, f) :> <<folder.name, f>>) @@ dir)

RECURSIVE CopyFolders(_, _)
CopyFolders(folders, dir) ==
    IF folders = <<>> THEN dir
    ELSE CopyFolders(Tail(folders),
                     CopyFolder(Head(folders), Head(folders).files, dir))

\* The folders mergeHistory copies, oldest first.
MergeFoldersTwo(h) == Reverse(Slice(SortNewestFirst(h), MergeWindow - 1))
MergeFolders(h) == Reverse(Slice(SortNewestFirst(h), MergeWindow))

\* mergeHistory(): the new allure-results/history.
mergeHistory(h, old) ==
    [exists |-> TRUE, files |-> CopyFolders(MergeFolders(h), <<>>)]

\* Snapshot: mkdirSync(runFolder, {recursive: true}) and the copy of every
\* file of allure-report/history into it.  A folder of the same name is
\* reused; its mtime is the time of the last copy.
Snapshot(h, rep, t) ==
    LET name == Timestamp(t)
        same == {e \in h : e.name = name}
        old  == IF same = {} THEN {} ELSE (CHOOSE e \in same : TRUE).files
        born == IF same = {} THEN t ELSE (CHOOSE e \in same : TRUE).created
    IN (h \ same) \cup
       {[name |-> name, time |-> t, files |-> old \cup rep.history,
         created |-> born]}

\* Prune: everything beyond index PruneKeep - 1 of the newest-first list.
PruneOldestFirst(h) ==
    LET folders == Reverse(SortNewestFirst(h))
    IN {folders[i] : i \in 1..Len(folders)} \
       {folders[i] : i \in (PruneKeep + 1)..Len(folders)}
PruneNone(h) == h
Prune(h) ==
    LET folders == SortNewestFirst(h)
    IN {folders[i] : i \in 1..Len(folders)} \
       {folders[i] : i \in (PruneKeep + 1)..Len(folders)}

\* saveCurrentRunHistory(): the new .history.
saveWithoutCheck(h, rep, t) == Prune(Snapshot(h, rep, t))
savePruneFirst(h, rep, t) ==
    IF ~rep.hasHistory THEN h ELSE Snapshot(Prune(h), rep, t)
saveCurrentRunHistory(h, rep, t) ==
    IF ~rep.hasHistory THEN h ELSE Prune(Snapshot(h, rep, t))

\* ------------------------------------------------------------ characters
\* Texts are sequences of one-character strings.
LowerSeq == <<"a", "b", "c", "d", "e", "f", "g", "h", "i", "j", "k", "l", "m",
              "n", "o", "p", "q", "r", "s", "t", "u", "v", "w", "x", "y", "z">>
UpperSeq == <<"A", "B", "C", "D", "E", "F", "G", "H", "I", "J", "K", "L", "M",
              "N", "O", "P", "Q", "R", "S", "T", "U", "V", "W", "X", "Y", "Z">>
LowerLetters == {LowerSeq[i] : i \in 1..Len(LowerSeq)}
UpperLetters == {UpperSeq[i] : i \in 1..Len(UpperSeq)}
Letters == LowerLetters \cup UpperLetters
Digits == {"0", "1", "2", "3", "4", "5", "6", "7", "8", "9"}
Alnum == Letters \cup Digits
Whitespace == {" ", "\n", "\t"}
Quotes == {"\"", "'"}
Alphabet == Alnum \cup Whitespace \cup Quotes \cup
            {":", "=", ",", "{", "}", "-", "_", ".", "~", "+", "/", "*"}

\* The characters a literal matches under the i flag.
Ci(c) ==
    IF c \in LowerLetters
    THEN {c, UpperSeq[CHOOSE i \in 1..Len(LowerSeq) : LowerSeq[i] = c]}
    ELSE IF c \in UpperLetters
    THEN {c, LowerSeq[CHOOSE i \in 1..Len(UpperSeq) : UpperSeq[i] = c]}
    ELSE {c}

\* String.prototype.toLowerCase
ToLower(s) ==
    [i \in 1..Len(s) |->
        IF s[i] \in UpperLetters
        THEN LowerSeq[CHOOSE j \in 1..Len(UpperSeq) : UpperSeq[j] = s[i]]
        ELSE s[i]]

\* ------------------------------------------------------ regular expressions
\* A pattern is a sequence of items.  An item is either a literal text,
\* matched letter by letter under the i flag (lit # <<>>), or a character
\* class with a greedy repetition {min,max}; max = -1 is "no upper limit".
Item(cls, min, max) == [cls |-> cls, min |-> min, max |-> max, lit |-> <<>>]
One(cls)  == <<Item(cls, 1, 1)>>
Opt(cls)  == <<Item(cls, 0, 1)>>
Star(cls) == <<Item(cls, 0, -1)>>
Plus(cls) == <<Item(cls, 1, -1)>>
Lit(t)    == <<[cls |-> {}, min |-> 1, max |-> 1, lit |-> t]>>

\* Whether the literal t matches s at pos, ignoring letter case.
LitAt(s, pos, t) ==
    /\ pos + Len(t) - 1 <= Len(s)
    /\ \A i \in 1..Len(t) : s[pos + i - 1] \in Ci(t[i])

\* Length of the run of cls characters at pos, at most cap of them
\* (cap = -1: no limit).
RunLen(s, pos, cls, cap) ==
    LET room  == Len(s) - pos + 1
        limit == IF cap >= 0 /\ cap < room THEN cap ELSE room
    IN CHOOSE n \in 0..limit :
          /\ \A i \in 0..(n - 1) : s[pos + i] \in cls
          /\ (n = limit \/ s[pos + n] \notin cls)

\* Of the tried repetition counts <<c, match of the rest>>, the largest
\* count whose rest matches: what greedy backtracking finds first.
PickBest(pos, tried) ==
    LET good == {p \in tried : p[2] # <<>>}
    IN IF good = {} THEN <<>>
       ELSE <<pos>> \o (CHOOSE p \in good : \A q \in good : q[1] <= p[1])[2]

\* Backtracking match of items[k..] at pos: <<>> when there is none, else
\* the start position of each item from k on, followed by the position
\* after the match.
RECURSIVE MatchFrom(_, _, _, _)
MatchRest(pos, rest) == IF rest = <<>> THEN <<>> ELSE <<pos>> \o rest
MatchRun(items, k, s, pos, n) ==
    IF n < items[k].min THEN <<>>
    ELSE PickBest(pos, {<<c, MatchFrom(items, k + 1, s, pos + c)>> :
                            c \in items[k].min..n})
MatchFrom(items, k, s, pos) ==
    IF k > Len(items) THEN <<pos>>
    ELSE IF items[k].lit # <<>>
    THEN IF LitAt(s, pos, items[k].lit)
         THEN MatchRest(pos, MatchFrom(items, k + 1, s, pos + Len(items[k].lit)))
         ELSE <<>>
    ELSE MatchRun(items, k, s, pos, RunLen(s, pos, items[k].cls, items[k].max))

\* All matches of a g-flagged pattern, leftmost first, not overlapping.
RECURSIVE FindAll(_, _, _)
FindAll(items, s, pos) ==
    LET starts == {q \in pos..Len(s) : MatchFrom(items, 1, s, q) # <<>>}
    IN IF starts = {} THEN <<>>
       ELSE LET q == CHOOSE x \in starts : \A y \in starts : x <= y
                m == MatchFrom(items, 1, s, q)
            IN <<m>> \o FindAll(items, s,
                            IF m[Len(m)] = q THEN q + 1 ELSE m[Len(m)])

\* Whether t occurs in s at position i.
OccursAt(s, t, i) == i + Len(t) - 1 <= Len(s) /\ SubSeq(s, i, i + Len(t) - 1) = t
Contains(s, t) == \E i \in 1..(Len(s) + 1) : OccursAt(s, t, i)

\* str.replace(pat, rep) with a string pat: the first occurrence only.
ReplaceFirst(str, pat, rep) ==
    IF ~Contains(str, pat) THEN str
    ELSE LET i == CHOOSE j \in 1..(Len(str) + 1) :
                    /\ OccursAt(str, pat, j)
                    /\ \A k \in 1..(j - 1) : ~OccursAt(str, pat, k)
         IN SubSeq(str, 1, i - 1) \o rep \o SubSeq(str, i + Len(pat), Len(str))

\* '***REDACTED***'
Marker == <<"*", "*", "*", "R", "E", "D", "A", "C", "T", "E", "D", "*", "*", "*">>

\* What one match of a pattern is replaced by.  p.whole = <<>>: the callback
\* (match, group1) => match.replace(group1, marker), group 1 being the items
\* p.g1..p.g2; otherwise the fixed replacement text p.whole.
Replacement(p, s, m) ==
    IF p.whole # <<>> THEN p.whole
    ELSE ReplaceFirst(SubSeq(s, m[1], m[Len(m)] - 1),
                      SubSeq(s, m[p.g1], m[p.g2 + 1] - 1), Marker)

RECURSIVE Rebuild(_, _, _, _)
Rebuild(p, s, ms, pos) ==
    IF ms = <<>> THEN SubSeq(s, pos, Len(s))
    ELSE LET m == Head(ms)
         IN SubSeq(s, pos, m[1] - 1) \o Replacement(p, s, m)
            \o Rebuild(p, s, Tail(ms), m[Len(m)])

\* content.replace(/.../gi, ...)
ReplaceAll(p, s) == Rebuild(p, s, FindAll(p.items, s, 1), 1)

RECURSIVE ReplaceEach(_, _)
ReplaceEach(ps, s) ==
    IF ps = <<>> \/ Len(s) = 0 THEN s
    ELSE ReplaceEach(Tail(ps), ReplaceAll(Head(ps), s))

\* --------------------------------------------------------------- Redactor
\* const SENSITIVE_PATTERNS = [...]
SENSITIVE_PATTERNS ==
    << <<"a", "p", "i", "-", "k", "e", "y">>,
       <<"a", "u", "t", "h", "o", "r", "i", "z", "a", "t", "i", "o", "n">>,
       <<"x", "-", "a", "p", "i", "-", "k", "e", "y">>,
       <<"p", "o", "s", "t", "m", "a", "n", "-", "t", "o", "k", "e", "n">>,
       <<"c", "o", "o", "k", "i", "e">>,
       <<"s", "e", "t", "-", "c", "o", "o", "k", "i", "e">>,
       <<"x", "-", "a", "u", "t", "h", "-", "t", "o", "k", "e", "n">>,
       <<"b", "e", "a", "r", "e", "r">>,
       <<"p", "a", "s", "s", "w", "o", "r", "d">>,
       <<"s", "e", "c", "r", "e", "t">>,
       <<"t", "o", "k", "e", "n">>,
       <<"a", "u", "t", "h">> >>

\* Repetition limits of the value shapes in maskSensitiveData.
ApiKeyMin == 32
ApiKeyMax == 40
TokenMin == 20
PasswordMin == 3

Sep == {":", "="}
TokenChars == Alnum \cup {"-", ".", "_", "~", "+", "/"}
PasswordChars == Alphabet \ (Quotes \cup Whitespace \cup {",", "}"})
NotQuote == Alphabet \ {"\""}
DQ == {"\""}

\* A pattern whose callback replaces group 1 (items g1..g2) inside the match.
GroupPattern(before, group, after) ==
    [items |-> before \o group \o after,
     g1 |-> Len(before) + 1, g2 |-> Len(before) + Len(group), whole |-> <<>>]

\* /["']?api[-_]?key["']?\s*[:=]\s*["']?([a-zA-Z0-9]{32,40})["']?/gi
ApiKeyPattern ==
    GroupPattern(
        Opt(Quotes) \o Lit(<<"a", "p", "i">>) \o Opt({"-", "_"})
        \o Lit(<<"k", "e", "y">>) \o Opt(Quotes) \o Star(Whitespace)
        \o One(Sep) \o Star(Whitespace) \o Opt(Quotes),
        <<Item(Alnum, ApiKeyMin, ApiKeyMax)>>,
        Opt(Quotes))

\* /["']?authorization["']?\s*[:=]\s*["']?Bearer\s+([a-zA-Z0-9\-._~+\/]+=*)["']?/gi
BearerPattern ==
    GroupPattern(
        Opt(Quotes) \o Lit(SENSITIVE_PATTERNS[2]) \o Opt(Quotes)
        \o Star(Whitespace) \o One(Sep) \o Star(Whitespace) \o Opt(Quotes)
        \o Lit(<<"B", "e", "a", "r", "e", "r">>) \o Plus(Whitespace),
        Plus(TokenChars) \o Star({"="}),
        Opt(Quotes))

\* /["']?[a-z]*token["']?\s*[:=]\s*["']?([a-zA-Z0-9\-._~+\/]{20,})["']?/gi
TokenPattern ==
    GroupPattern(
        Opt(Quotes) \o Star(Letters) \o Lit(<<"t", "o", "k", "e", "n">>)
        \o Opt(Quotes) \o Star(Whitespace) \o One(Sep) \o Star(Whitespace)
        \o Opt(Quotes),
        <<Item(TokenChars, TokenMin, -1)>>,
        Opt(Quotes))

\* /["']?password["']?\s*[:=]\s*["']?([^"'\s,}]{3,})["']?/gi
PasswordPattern ==
    GroupPattern(
        Opt(Quotes) \o Lit(SENSITIVE_PATTERNS[9]) \o Opt(Quotes)
        \o Star(Whitespace) \o One(Sep) \o Star(Whitespace) \o Opt(Quotes),
        <<Item(PasswordChars, PasswordMin, -1)>>,
        Opt(Quotes))

\* `"${pattern}": "***REDACTED***"`
KeyReplacement(key) ==
    <<"\"">> \o key \o <<"\"", ":", " ", "\"">> \o Marker \o <<"\"">>

\* new RegExp(`"${pattern}"\\s*:\\s*"([^"]*)"`, 'gi') with its replacement
HeaderPattern(key) ==
    [items |-> One(DQ) \o Lit(key) \o One(DQ) \o Star(Whitespace) \o One({":"})
               \o Star(Whitespace) \o One(DQ) \o Star(NotQuote) \o One(DQ),
     g1 |-> 8, g2 |-> 8, whole |-> KeyReplacement(key)]

\* The patterns of maskSensitiveData in the order they are applied: the
\* four value shapes, then one pattern per header name.
MaskPatterns ==
    <<ApiKeyPattern, BearerPattern, TokenPattern, PasswordPattern>>
    \o [i \in 1..Len(SENSITIVE_PATTERNS) |->
            HeaderPattern(SENSITIVE_PATTERNS[i])]

\* maskSensitiveData(content)
maskSensitiveData(content) == ReplaceEach(MaskPatterns, content)

\* /"api-key":\s*"[^"]+"/gi and its replacement (the gh-pages script)
PagesPattern(key) ==
    [items |-> One(DQ) \o Lit(key) \o One(DQ) \o One({":"})
               \o Star(Whitespace) \o One(DQ) \o Plus(NotQuote) \o One(DQ),
     g1 |-> 7, g2 |-> 7, whole |-> KeyReplacement(key)]

\* The replacements of sanitizeAllureResults in the gh-pages script, in order:
\* api-key, authorization, postman-token, x-api-key, cookie.
PagesPatterns ==
    <<PagesPattern(SENSITIVE_PATTERNS[1]), PagesPattern(SENSITIVE_PATTERNS[2]),
      PagesPattern(SENSITIVE_PATTERNS[4]), PagesPattern(SENSITIVE_PATTERNS[3]),
      PagesPattern(SENSITIVE_PATTERNS[5])>>

\* The content sanitizeAllureResults of the gh-pages script writes back.
sanitizeContent(content) == ReplaceEach(PagesPatterns, content)

\* isSensitiveField(fieldName)
isSensitiveField(fieldName) ==
    /\ fieldName # <<>>
    /\ \E i \in 1..Len(SENSITIVE_PATTERNS) :
            Contains(ToLower(fieldName), SENSITIVE_PATTERNS[i])

\* sanitizeAllureResults of the promise script on one parameter of a result
\* file: { ...param, value: '***REDACTED***' } when the name is sensitive.
sanitizeParameter(p) ==
    IF isSensitiveField(p.name) THEN [p EXCEPT !.value = Marker] ELSE p

\* What a script's Redactor makes of a parameter.  The gh-pages script has
\* no parameter rule, and none of its five patterns matches the
\* "name": ..., "value": ... layout of a parameter.
redactParameter(v, p) == IF v = "strict" THEN sanitizeParameter(p) ELSE p

\* The Redactor of a script, applied to the content of one artifact.
redact(v, content) ==
    CASE v = "strict"  -> maskSensitiveData(content)
      [] v = "ghpages" -> sanitizeContent(content)
      [] OTHER -> content

\* The patterns of a script's Redactor.
RedactorPatterns(v) ==
    CASE v = "strict"  -> MaskPatterns
      [] v = "ghpages" -> PagesPatterns
      [] OTHER -> <<>>

\* ------------------------------------------------- inputs of the Redactor
\* A key/value pair as it appears in an artifact: JSON with a string value,
\* JSON with a bare value, or an assignment.
NoInput == [key |-> <<>>, value |-> <<>>, style |-> "none"]
Styles == {"json", "jsonbare", "assign"}

Filler(c, n) == [i \in 1..n |-> c]
Bearer == <<"B", "e", "a", "r", "e", "r", " ">>

InputKeys ==
    { SENSITIVE_PATTERNS[2],
      <<"A">> \o Tail(SENSITIVE_PATTERNS[2]),
      SENSITIVE_PATTERNS[9],
      SENSITIVE_PATTERNS[11],
      SENSITIVE_PATTERNS[11] \o <<"_", "c", "o", "u", "n", "t">>,
      SENSITIVE_PATTERNS[1],
      SENSITIVE_PATTERNS[5],
      Filler("x", TokenMin) \o SENSITIVE_PATTERNS[11],
      <<"i", "d">> }

InputValues ==
    { Bearer \o <<"a", "b", "c", "1", "2", "3">>,
      SENSITIVE_PATTERNS[9],
      <<"h", "u", "n", "t", "e", "r", "2">>,
      <<"4", "2">>,
      Filler("x", TokenMin),
      Filler("k", ApiKeyMin),
      Marker }

RedactInputs ==
    {[key |-> k, value |-> v, style |-> st] :
        k \in InputKeys, v \in InputValues, st \in Styles}

\* Text before the value, and after it.
BeforeValue(i) ==
    CASE i.style = "json"     -> <<"\"">> \o i.key \o <<"\"", ":", " ", "\"">>
      [] i.style = "jsonbare" -> <<"\"">> \o i.key \o <<"\"", ":", " ">>
      [] i.style = "assign"   -> i.key \o <<"=">>
      [] OTHER -> <<>>
AfterValue(i) == IF i.style = "json" THEN <<"\"">> ELSE <<>>

Render(i) == BeforeValue(i) \o i.value \o AfterValue(i)

\* The secret part of a value: the token of "Bearer <token>", else all of it.
SecretOf(v) ==
    IF Len(v) > Len(Bearer) /\ SubSeq(v, 1, Len(Bearer)) = Bearer
    THEN SubSeq(v, Len(Bearer) + 1, Len(v))
    ELSE v

\* --------------------------------------------------------------- pipeline
\* cleanAllureResults(): every entry of allure-results but 'history' is
\* removed.
cleanKeepsAll(entries) == entries
cleanAllureResults(entries) == {e \in entries : e.name = "history"}

\* addExecutorInfo(): executor.properties, written by run r.
addExecutorInfo(entries, r) ==
    {e \in entries : e.name # "executor.properties"}
    \cup {[name |-> "executor.properties", run |-> r]}

\* What the legacy script does on load: mkdirSync of allure-results/history
\* when it is missing, then the removal of everything but 'history'.
legacyClean(entries, r) ==
    cleanAllureResults(entries)
    \cup (IF \E e \in entries : e.name = "history" THEN {}
          ELSE {[name |-> "history", run |-> r]})

\* The result files and attachments the runner writes in run r, under names
\* no earlier run has used.
runnerWrites(entries, r) == entries \cup {[name |-> "result", run |-> r]}

\* mergeHistory() on the entries of allure-results: 'history' is removed
\* and made again.
rebuildHistory(entries, r) ==
    {e \in entries : e.name # "history"} \cup {[name |-> "history", run |-> r]}

NoParam == [name |-> <<>>, value |-> <<>>]

NoReport == [exists |-> FALSE, hasHistory |-> FALSE, history |-> {}]

\* What the runner may write into the result artifact of a run: the text
\* and the secret value it carries (<<>>: none).
Fixtures ==
    { [text   |-> <<"\"", "i", "d", "\"", ":", " ", "\"", "7", "\"">>,
       secret |-> <<>>,
       param  |-> [name |-> <<"i", "d">>, value |-> <<"7">>]],
      [text   |-> <<"\"">> \o SENSITIVE_PATTERNS[2]
                  \o <<"\"", ":", " ", "\"", "B", "e", "a", "r", "e", "r", " ",
                       "k", "9", "z", "\"">>,
       secret |-> <<"k", "9", "z">>,
       param  |-> [name  |-> SENSITIVE_PATTERNS[2],
                   value |-> <<"B", "e", "a", "r", "e", "r", " ",
                               "k", "9", "z">>]],
      [text   |-> <<"\"">> \o SENSITIVE_PATTERNS[9]
                  \o <<"\"", ":", " ", "\"", "h", "u", "n", "t", "e", "r", "\"">>,
       secret |-> <<"h", "u", "n", "t", "e", "r">>,
       param  |-> [name  |-> SENSITIVE_PATTERNS[9],
                   value |-> <<"h", "u", "n", "t", "e", "r">>]] }

Init ==
    /\ variant \in Variants
    /\ pc = "idle"
    /\ runs = 0
    /\ clock = 0
    /\ env = {}
    /\ failed = 0
    /\ exitCode = -1
    /\ history = {}
    /\ targetHistory = NoDir
    /\ artifact = <<>>
    /\ secret = <<>>
    /\ report = NoReport
    /\ published = <<>>
    /\ slack = "none"
    /\ log = {}
    /\ trace = <<>>
    /\ passes = 0
    /\ input = NoInput
    /\ results = {}
    /\ param = NoParam
    /\ nSaved = 0
    /\ trend = <<>>

\* process.exit(code), or the process ending with nothing left to do.
End(code) ==
    /\ pc' = "idle"
    /\ exitCode' = code
    /\ slack' = IF slack = "inflight" THEN "aborted" ELSE slack

\* The catch block around report generation, snapshot and deployment:
\* the callback scripts log and go on to process.exit(failed > 0 ? 1 : 0),
\* the promise script logs and calls process.exit(1).
CaughtFatal(msg) == log' = log \cup {msg} /\ End(1)
CaughtThenNotifies(msg) ==
    /\ log' = log \cup {msg}
    /\ IF variant = "ghpages"
       THEN pc' = "notify" /\ UNCHANGED <<exitCode, slack>>
       ELSE IF variant \in CallbackVariants
       THEN pc' = "exit" /\ UNCHANGED <<exitCode, slack>>
       ELSE End(1)
Caught(msg) ==
    /\ log' = log \cup {msg}
    /\ IF variant \in CallbackVariants
       THEN pc' = "exit" /\ UNCHANGED <<exitCode, slack>>
       ELSE End(1)

\* A new invocation whose environment lacks a required value:
\* console.error and process.exit(1) before anything else.
StartMissingConfig ==
    /\ pc = "idle" /\ runs < MaxRuns
    /\ \E e \in SUBSET EnvNames(variant) :
          /\ ~(Required(variant) \subseteq e)
          /\ env' = e
    /\ runs' = runs + 1
    /\ clock' = clock + 1
    /\ failed' = 0
    /\ trace' = <<>>
    /\ passes' = 0
    /\ log' = {"missing-config"}
    /\ pc' = "idle"
    /\ exitCode' = 1
    /\ slack' = "none"
    /\ published' = <<>>
    /\ UNCHANGED <<trend, variant, history, targetHistory, artifact, secret, report,
                   nSaved, input, results, param>>

\* A new invocation: the configuration check passes, cleanAllureResults()
\* removes everything in allure-results except 'history', addExecutorInfo().
\* The legacy script checks nothing and cleans while it loads.
StartRun ==
    /\ pc = "idle" /\ runs < MaxRuns
    /\ \E e \in SUBSET EnvNames(variant) :
          /\ Required(variant) \subseteq e
          /\ env' = e
    /\ runs' = runs + 1
    /\ clock' = clock + 1
    /\ failed' = 0
    /\ artifact' = <<>>
    /\ secret' = <<>>
    /\ trace' = <<"clean">>
    /\ passes' = 0
    /\ log' = {}
    /\ slack' = "none"
    /\ published' = <<>>
    /\ exitCode' = -1
    /\ pc' = "fetch"
    /\ param' = NoParam
    /\ IF variant = "legacy"
       THEN /\ results' = legacyClean(results, runs')
            /\ targetHistory' = [targetHistory EXCEPT !.exists = TRUE]
       ELSE /\ results' = addExecutorInfo(cleanAllureResults(results), runs')
            /\ UNCHANGED targetHistory
    /\ UNCHANGED <<trend, variant, history, report, nSaved, input>>

\* await getCollection() returns the collection; the request cannot succeed
\* without the collection id and the API key.
FetchOk ==
    /\ pc = "fetch"
    /\ FetchNeeds \subseteq env
    /\ pc' = "newman"
    /\ trace' = Append(trace, "fetch")
    /\ UNCHANGED <<trend, variant, runs, clock, env, failed, exitCode, history,
                   targetHistory, artifact, secret, report, published, slack,
                   log, passes, nSaved,
                   input, results, param>>

FetchFailsGoesOn ==
    /\ pc = "fetch"
    /\ log' = log \cup {"fetch-failed"}
    /\ trace' = Append(trace, "fetch")
    /\ pc' = "newman"
    /\ UNCHANGED <<trend, variant, runs, clock, env, failed, exitCode, history,
                   targetHistory, artifact, secret, report, published, slack,
                   passes, nSaved, input, results, param>>

\* The request was sent and getCollection() rejects.  The promise script
\* catches it and calls process.exit(1), the login and legacy scripts call
\* process.exit(1) in getCollection; in the other callback scripts the
\* rejection of runTests() is unhandled, on which Node (15 and later) ends
\* the process with code 1.
FetchFails ==
    /\ pc = "fetch"
    /\ log' = log \cup {"fetch-failed"}
    /\ trace' = Append(trace, "fetch")
    /\ End(1)
    /\ UNCHANGED <<trend, variant, runs, clock, env, failed, history, targetHistory,
                   artifact, secret, report, published, passes, nSaved,
                   input, results, param>>

NewmanFailsHangs ==
    /\ pc = "newman"
    /\ log' = log \cup {"newman-failed"}
    /\ pc' = "pending"
    /\ UNCHANGED <<trend, variant, runs, clock, env, failed, exitCode, history,
                   targetHistory, artifact, secret, report, published, slack,
                   trace, passes, nSaved, input, results, param>>

\* The newman.run callback with err set.  Callback scripts:
\* `if (err) return console.error(...)`, after which nothing is pending and
\* the process ends by itself, with code 0.  Promise script: reject(err),
\* caught by runTests, process.exit(1).  Legacy script: process.exit(1).
NewmanFails ==
    /\ pc = "newman"
    /\ log' = log \cup {"newman-failed"}
    /\ End(IF variant \in CallbackVariants THEN 0 ELSE 1)
    /\ UNCHANGED <<trend, variant, runs, clock, env, failed, history, targetHistory,
                   artifact, secret, report, published, trace, passes, nSaved,
                   input, results, param>>

\* What follows the runner in each script.
AfterNewman(v) ==
    CASE v \in RedactingVariants -> "sanitize"
      [] v = "legacy" -> "execsync-generate"
      [] OTHER -> "merge"

\* The newman.run callback with a summary: the runner has written the
\* result artifacts into allure-results.
NewmanDone ==
    /\ pc = "newman"
    /\ \E f \in 0..MaxFailed : failed' = f
    /\ \E fx \in Fixtures :
          artifact' = fx.text /\ secret' = fx.secret /\ param' = fx.param
    /\ results' = runnerWrites(results, runs)
    /\ trace' = Append(trace, "newman")
    /\ pc' = AfterNewman(variant)
    /\ UNCHANGED <<trend, variant, runs, clock, env, exitCode, history, targetHistory,
                   report, published, slack, log, passes, nSaved, input>>

\* sanitizeAllureResults(): every artifact is rewritten with the redacted
\* content.
SanitizeOk ==
    /\ pc = "sanitize"
    /\ artifact' = redact(variant, artifact)
    /\ param' = redactParameter(variant, param)
    /\ passes' = passes + 1
    /\ log' = log \cup {"sanitized"}
    /\ trace' = Append(trace, "sanitize")
    /\ pc' = "merge"
    /\ UNCHANGED <<trend, variant, runs, clock, env, failed, exitCode, history,
                   targetHistory, secret, report, published, slack, nSaved,
                   input, results>>

SanitizeFailsSilently ==
    /\ pc = "sanitize"
    /\ trace' = Append(trace, "sanitize")
    /\ pc' = "merge"
    /\ UNCHANGED <<trend, variant, runs, clock, env, failed, exitCode, history,
                   targetHistory, artifact, secret, report, published, slack,
                   log, passes, nSaved, input, results, param>>

\* sanitizeAllureResults() when listing, reading or parsing throws before
\* the artifact is rewritten: its own catch logs the message, and the
\* caller goes on.
SanitizeFails ==
    /\ pc = "sanitize"
    /\ log' = log \cup {"sanitize-error"}
    /\ trace' = Append(trace, "sanitize")
    /\ pc' = "merge"
    /\ UNCHANGED <<trend, variant, runs, clock, env, failed, exitCode, history,
                   targetHistory, artifact, secret, report, published, slack,
                   passes, nSaved,
                   input, results, param>>

MergeMovesFolders ==
    /\ pc = "merge"
    /\ targetHistory' = mergeHistory(history, targetHistory)
    /\ history' = history \ {MergeFolders(history)[i] :
                                i \in 1..Len(MergeFolders(history))}
    /\ results' = rebuildHistory(results, runs)
    /\ trace' = Append(trace, "merge")
    /\ pc' = "generate"
    /\ UNCHANGED <<trend, variant, runs, clock, env, failed, exitCode, artifact,
                   secret, report, published, slack, log, passes, nSaved,
                   input, param>>

\* generateAllureReport() up to exec(): mergeHistory().
Merge ==
    /\ pc = "merge"
    /\ targetHistory' = mergeHistory(history, targetHistory)
    /\ results' = rebuildHistory(results, runs)
    /\ trace' = Append(trace, "merge")
    /\ pc' = "generate"
    /\ UNCHANGED <<trend, variant, runs, clock, env, failed, exitCode, history,
                   artifact, secret, report, published, slack, log, passes,
                   nSaved, input, param>>

\* `allure generate ... --clean` exits with 0: a fresh allure-report, with
\* or without a history folder.
GenerateOk ==
    /\ pc = "generate"
    /\ \/ \E files \in ReportHistoryOutputs :
             report' = [exists |-> TRUE, hasHistory |-> TRUE,
                        history |-> files]
       \/ report' = [exists |-> TRUE, hasHistory |-> FALSE, history |-> {}]
    /\ trace' = Append(trace, "generate")
    /\ pc' = "save"
    /\ UNCHANGED <<trend, variant, runs, clock, env, failed, exitCode, history,
                   targetHistory, artifact, secret, published, slack, log,
                   passes, nSaved,
                   input, results, param>>

GenerateFailsGoesOn ==
    /\ pc = "generate"
    /\ report' \in {report, NoReport}
    /\ trace' = Append(trace, "generate-failed")
    /\ log' = log \cup {"generate-failed"}
    /\ pc' = "save"
    /\ UNCHANGED <<trend, variant, runs, clock, env, failed, exitCode, history,
                   targetHistory, artifact, secret, published, slack, passes,
                   nSaved, input, results, param>>

\* `allure generate` fails: the promise rejects, which skips the snapshot
\* and the deployment.  --clean may or may not have emptied the old report.
GenerateFails ==
    /\ pc = "generate"
    /\ report' \in {report, NoReport}
    /\ trace' = Append(trace, "generate-failed")
    /\ Caught("generate-failed")
    /\ UNCHANGED <<trend, variant, runs, clock, env, failed, history, targetHistory,
                   artifact, secret, published, passes, nSaved,
                   input, results, param>>

\* saveCurrentRunHistory()
Save ==
    /\ pc = "save"
    /\ history' = saveCurrentRunHistory(history, report, clock)
    /\ nSaved' = IF report.hasHistory THEN nSaved + 1 ELSE nSaved
    /\ trace' = Append(trace, "save")
    /\ pc' = "deploy"
    /\ UNCHANGED <<trend, variant, runs, clock, env, failed, exitCode, targetHistory,
                   artifact, secret, report, published, slack, log, passes,
                   input, results, param>>

\* deployToSurge() of the promise script without SURGE_TOKEN: logs and
\* resolves without deploying.
DeploySkipped ==
    /\ pc = "deploy"
    /\ variant = "strict" /\ "SURGE_TOKEN" \notin env
    /\ log' = log \cup {"deploy-skipped"}
    /\ pc' = "exit"
    /\ UNCHANGED <<trend, variant, runs, clock, env, failed, exitCode, history,
                   targetHistory, artifact, secret, report, published, slack,
                   trace, passes, nSaved,
                   input, results, param>>

\* deployToSurge() of the login script without SURGE_LOGIN or
\* SURGE_PASSWORD: console.error and process.exit(1).
DeployMissingLogin ==
    /\ pc = "deploy"
    /\ variant = "login" /\ ~(SurgeLogin \subseteq env)
    /\ log' = log \cup {"missing-config"}
    /\ End(1)
    /\ UNCHANGED <<trend, variant, runs, clock, env, failed, history, targetHistory,
                   artifact, secret, report, published, trace, passes, nSaved,
                   input, results, param>>

\* The deployment command succeeds: the report is online.
DeployOk ==
    /\ pc = "deploy"
    /\ variant = "strict" => "SURGE_TOKEN" \in env
    /\ variant = "login" => SurgeLogin \subseteq env
    /\ published' = artifact
    /\ trace' = Append(trace, "deploy")
    /\ pc' = IF variant = "ghpages" THEN "notify" ELSE "exit"
    /\ UNCHANGED <<trend, variant, runs, clock, env, failed, exitCode, history,
                   targetHistory, artifact, secret, report, slack, log,
                   passes, nSaved,
                   input, results, param>>

\* The deployment command fails: the promise rejects.
DeployFails ==
    /\ pc = "deploy"
    /\ variant = "strict" => "SURGE_TOKEN" \in env
    /\ variant = "login" => SurgeLogin \subseteq env
    /\ trace' = Append(trace, "deploy-failed")
    /\ Caught("deploy-failed")
    /\ UNCHANGED <<trend, variant, runs, clock, env, failed, history, targetHistory,
                   artifact, secret, report, published, passes, nSaved,
                   input, results, param>>

\* sendSlackNotification(): axios.post() is started and not awaited.
Notify ==
    /\ pc = "notify"
    /\ slack' = "inflight"
    /\ trace' = Append(trace, "notify")
    /\ pc' = "exit"
    /\ UNCHANGED <<trend, variant, runs, clock, env, failed, exitCode, history,
                   targetHistory, artifact, secret, report, published, log,
                   passes, nSaved,
                   input, results, param>>

\* process.exit(summary.run.stats.assertions.failed > 0 ? 1 : 0)
ExitCodeFor(f) == IF f > 0 THEN 1 ELSE 0

Exit ==
    /\ pc = "exit"
    /\ End(ExitCodeFor(failed))
    /\ UNCHANGED <<trend, variant, runs, clock, env, failed, history, targetHistory,
                   artifact, secret, report, published, log, trace, passes,
                   nSaved, input, results, param>>

\* The legacy script after the runner: the history backup is copied back
\* (allure-results/history as it was), then execSync('allure generate ...').
LegacyGenerateOk ==
    /\ pc = "execsync-generate"
    /\ \/ \E files \in ReportHistoryOutputs :
             report' = [exists |-> TRUE, hasHistory |-> TRUE,
                        history |-> files]
       \/ report' = [exists |-> TRUE, hasHistory |-> FALSE, history |-> {}]
    /\ trace' = Append(trace, "generate")
    /\ pc' = "execsync-deploy"
    /\ UNCHANGED <<trend, variant, runs, clock, env, failed, exitCode, history,
                   targetHistory, artifact, secret, published, slack, log,
                   passes, nSaved, input, results, param>>

\* execSync throws: the catch logs, the callback returns and the process
\* ends by itself, with code 0.
LegacyGenerateFails ==
    /\ pc = "execsync-generate"
    /\ report' \in {report, NoReport}
    /\ trace' = Append(trace, "generate-failed")
    /\ log' = log \cup {"generate-failed"}
    /\ End(0)
    /\ UNCHANGED <<trend, variant, runs, clock, env, failed, history, targetHistory,
                   artifact, secret, published, passes, nSaved, input,
                   results, param>>

\* execSync('surge ...') returns: the callback returns and the process ends
\* by itself, with code 0.
LegacyDeployOk ==
    /\ pc = "execsync-deploy"
    /\ published' = artifact
    /\ trace' = Append(trace, "deploy")
    /\ End(0)
    /\ UNCHANGED <<trend, variant, runs, clock, env, failed, history, targetHistory,
                   artifact, secret, report, log, passes, nSaved, input,
                   results, param>>

LegacyDeployFails ==
    /\ pc = "execsync-deploy"
    /\ trace' = Append(trace, "deploy-failed")
    /\ log' = log \cup {"deploy-failed"}
    /\ End(0)
    /\ UNCHANGED <<trend, variant, runs, clock, env, failed, history, targetHistory,
                   artifact, secret, report, published, passes, nSaved,
                   input, results, param>>

Next ==
    \/ StartMissingConfig \/ StartRun
    \/ FetchOk \/ FetchFails
    \/ NewmanFails \/ NewmanDone
    \/ SanitizeOk \/ SanitizeFails
    \/ Merge
    \/ GenerateOk \/ GenerateFails
    \/ Save
    \/ DeploySkipped \/ DeployMissingLogin \/ DeployOk \/ DeployFails
    \/ LegacyGenerateOk \/ LegacyGenerateFails
    \/ LegacyDeployOk \/ LegacyDeployFails
    \/ Notify
    \/ Exit

Spec == Init /\ [][Next]_vars

\* ------------------------------------------- filesystem failures
\* Spec with the environment assumption on the fs calls dropped: a call
\* inside mergeHistory or saveCurrentRunHistory may throw.

\* What mergeHistory leaves of allure-results/history when it throws: at
\* rmSync (as it was), at mkdirSync (removed), at readdirSync or statSync
\* (empty), or at a copy (the folders copied so far).
MergeFailOutcomes(h, old) ==
    {old, NoDir}
    \cup {[exists |-> TRUE,
           files |-> CopyFolders(SubSeq(MergeFolders(h), 1, k), <<>>)] :
             k \in 0..(Len(MergeFolders(h)) - 1)}

\* mergeHistory() throws inside `await generateAllureReport()`: the exec of
\* the report generator is never started, the catch block is entered.
MergeFails ==
    /\ pc = "merge"
    /\ \E out \in MergeFailOutcomes(history, targetHistory) :
          /\ targetHistory' = out
          /\ results' = IF out = targetHistory THEN results
                        ELSE IF ~out.exists
                        THEN {e \in results : e.name # "history"}
                        ELSE rebuildHistory(results, runs)
    /\ trace' = Append(trace, "merge-failed")
    /\ Caught("merge-failed")
    /\ UNCHANGED <<trend, variant, runs, clock, env, failed, history, artifact,
                   secret, report, published, passes, nSaved, input, param>>

\* What saveCurrentRunHistory leaves of .history when it throws: at
\* mkdirSync (as it was), at a copy (the run folder with the files copied
\* so far), at readdirSync, statSync or an rmSync of the prune loop (the
\* full run folder, and the folders deleted so far gone).
SaveFailOutcomes(h, rep, t) ==
    LET full == Snapshot(h, rep, t)
        folders == SortNewestFirst(full)
    IN {h}
       \cup {Snapshot(h, [rep EXCEPT !.history = part], t) :
                part \in (SUBSET rep.history) \ {rep.history}}
       \cup {full \ {folders[i] : i \in (PruneKeep + 1)..k} :
                k \in PruneKeep..(Len(folders) - 1)}
       \cup (IF Len(folders) <= PruneKeep THEN {full} ELSE {})

\* saveCurrentRunHistory() throws: the deployment is skipped, the catch
\* block is entered.
SaveFails ==
    /\ pc = "save"
    /\ report.hasHistory
    /\ history' \in SaveFailOutcomes(history, report, clock)
    /\ trace' = Append(trace, "save-failed")
    /\ Caught("save-failed")
    /\ UNCHANGED <<trend, variant, runs, clock, env, failed, targetHistory, artifact,
                   secret, report, published, passes, nSaved, input, results,
                   param>>

NextFs == Next \/ MergeFails \/ SaveFails

SpecFs == Init /\ [][NextFs]_vars

\* ------------------------------------------------------------- progress
\* Termination is checked over the first MaxLiveRuns invocations.
NextLive ==
    \/ runs < MaxLiveRuns /\ StartMissingConfig
    \/ runs < MaxLiveRuns /\ StartRun
    \/ FetchOk \/ FetchFails
    \/ NewmanFails \/ NewmanDone
    \/ SanitizeOk \/ SanitizeFails
    \/ Merge
    \/ GenerateOk \/ GenerateFails
    \/ Save
    \/ DeploySkipped \/ DeployMissingLogin \/ DeployOk \/ DeployFails
    \/ LegacyGenerateOk \/ LegacyGenerateFails
    \/ LegacyDeployOk \/ LegacyDeployFails
    \/ Notify
    \/ Exit

\* A started invocation goes on: every external call (collection request,
\* runner, report generator, deployment) eventually calls back, and the
\* event loop runs the continuation.  The Redactor is synchronous and
\* returns, normally or through its catch: SanitizeOk is taken from the
\* position of SanitizeFails and needs no condition of its own.
Proceed ==
    \/ FetchOk \/ FetchFails
    \/ NewmanFails \/ NewmanDone
    \/ SanitizeFails
    \/ Merge
    \/ GenerateOk \/ GenerateFails
    \/ DeploySkipped \/ DeployMissingLogin \/ DeployOk \/ DeployFails
    \/ LegacyGenerateOk \/ LegacyGenerateFails
    \/ LegacyDeployOk \/ LegacyDeployFails
    \/ Notify
    \/ Exit

\* saveCurrentRunHistory() returns, seen from its caller: the store holds
\* some of the entries it held and of the run folder, and the deployment is
\* next.  Every Save step is such a step, and no other step of Next is.
SaveReturns ==
    /\ pc = "save"
    /\ history' \in SUBSET Snapshot(history, report, clock)
    /\ nSaved' \in {nSaved, nSaved + 1}
    /\ trace' = Append(trace, "save")
    /\ pc' = "deploy"
    /\ UNCHANGED <<trend, variant, runs, clock, env, failed, exitCode, targetHistory,
                   artifact, secret, report, published, slack, log, passes,
                   input, results, param>>

SpecLive ==
    Init /\ [][NextLive]_vars /\ WF_vars(Proceed) /\ WF_vars(SaveReturns)

\* ------------------------------------------------------ generate-allure.js
\* One behaviour of SpecTrend is a sequence of invocations of
\* generate-allure.js on one reports directory; the script runs top to
\* bottom without waiting for anything, so an invocation is one step.

\* run.stats of the newman JSON report the script picks (the last by name).
\* The records of trend.json are told apart by their date; one value of the
\* stats keeps the number of file contents small.
NewmanStats ==
    {[requests |-> [total |-> 2, failed |-> 1], iterations |-> [total |-> 1]]}

\* new Date().toLocaleString(): the time of day to the second, the clock
\* counting seconds.
toLocaleString(t) == Join(<<Digit((t \div 10) % 10), Digit(t % 10)>>)

\* The record pushed for this run.
TrendRecord(stats, t) ==
    [date     |-> toLocaleString(t),
     total    |-> stats.requests.total,
     failed   |-> stats.requests.failed,
     duration |-> IF stats.iterations.total > 0 THEN stats.iterations.total
                  ELSE 0]

\* trendData.push(record); if (trendData.length > 10) trendData.shift();
updateTrendNoShift(trendData, record) == Append(trendData, record)
updateTrend(trendData, record) ==
    LET pushed == Append(trendData, record)
    IN IF Len(pushed) > TrendKeep THEN Tail(pushed) ELSE pushed

InitTrend ==
    /\ variant = "generate-allure"
    /\ pc = "idle"
    /\ trend = <<>>
    /\ runs = 0 /\ clock = 0 /\ env = {} /\ failed = 0 /\ exitCode = -1
    /\ history = {} /\ targetHistory = NoDir /\ report = NoReport
    /\ artifact = <<>> /\ secret = <<>> /\ input = NoInput /\ param = NoParam
    /\ published = <<>> /\ slack = "none" /\ log = {} /\ trace = <<>>
    /\ passes = 0 /\ nSaved = 0 /\ results = {}

\* What an invocation of generate-allure.js leaves alone.
TrendFrame ==
    UNCHANGED <<variant, pc, env, failed, history, targetHistory, artifact,
                secret, published, slack, trace, passes, input, results,
                param, nSaved>>

\* No newman-*.json in reports: process.exit(1).
TrendNoReports ==
    /\ variant = "generate-allure" /\ runs < MaxTrendRuns
    /\ runs' = runs + 1 /\ clock' = clock + 1
    /\ log' = {"no-reports"}
    /\ exitCode' = 1
    /\ UNCHANGED <<trend, report>>
    /\ TrendFrame

\* execSync('allure generate ...') throws: process.exit(1).
TrendGenerateFails ==
    /\ variant = "generate-allure" /\ runs < MaxTrendRuns
    /\ runs' = runs + 1 /\ clock' = clock + 1
    /\ log' = {"generate-failed"}
    /\ exitCode' = 1
    /\ report' \in {report, NoReport}
    /\ UNCHANGED trend
    /\ TrendFrame

\* The report is generated and trend.json is rewritten.
TrendRun ==
    /\ variant = "generate-allure" /\ runs < MaxTrendRuns
    /\ runs' = runs + 1 /\ clock' = clock + 1
    /\ log' = {"trend-updated"}
    /\ exitCode' = 0
    /\ report' = [exists |-> TRUE, hasHistory |-> FALSE, history |-> {}]
    /\ \E stats \in NewmanStats :
          trend' = updateTrend(trend, TrendRecord(stats, clock'))
    /\ TrendFrame

NextTrend == TrendNoReports \/ TrendGenerateFails \/ TrendRun

SpecTrend == InitTrend /\ [][NextTrend]_vars

\* ------------------------------------------- the Redactor on its own
\* The Redactor applied again and again to one artifact.
MaxPasses == 2

InitRedact ==
    /\ variant \in RedactingVariants
    /\ pc = "redactor"
    /\ \E i \in RedactInputs :
          /\ input = i
          /\ artifact = Render(i)
          /\ param = [name |-> i.key, value |-> i.value]
          /\ secret = SecretOf(i.value)
    /\ passes = 0
    /\ runs = 0 /\ clock = 0 /\ env = {} /\ failed = 0 /\ exitCode = -1
    /\ history = {} /\ targetHistory = NoDir /\ report = NoReport
    /\ published = <<>> /\ slack = "none" /\ log = {} /\ trace = <<>>
    /\ nSaved = 0 /\ results = {} /\ trend = <<>>

Redact ==
    /\ pc = "redactor"
    /\ passes < MaxPasses
    /\ artifact' = redact(variant, artifact)
    /\ param' = redactParameter(variant, param)
    /\ passes' = passes + 1
    /\ UNCHANGED <<trend, variant, pc, runs, clock, env, failed, exitCode, history,
                   targetHistory, secret, report, published, slack, log,
                   trace, input, nSaved, results>>

NextRedact == Redact

SpecRedact == InitRedact /\ [][NextRedact]_vars

\* ------------------------------------------------------ the history store
\* C1: whenever a store operation has completed, and so before any phase of
\* any run, the history store holds at most 3 entries.
StoreAtMostThree == Cardinality(history) <= 3

\* The fourth snapshot has been taken and pruned back to three entries.
StoreFullAfterFourthSnapshot ==
    pc = "deploy" /\ nSaved >= 4 /\ Cardinality(history) = 3

\* C2: when entries are deleted to respect the window, every deleted entry
\* was created before every entry that remains, and the entry a snapshot
\* has just created is among those that remain.
PruneDeletesOldest ==
    [][/\ \A gone \in history \ history' :
             \A kept \in history' : gone.created < kept.created
       /\ nSaved' = nSaved + 1 =>
             \E kept \in history' : kept.created = clock']_vars

\* A snapshot after which an entry of the store is gone.
OldEntryPruned ==
    /\ nSaved >= 4
    /\ \E t \in 1..clock :
          /\ \A e \in history : e.created > t
          /\ Cardinality(history) = 3
          /\ Timestamp(t) \notin {e.name : e \in history}

\* C3: from an empty store, after k snapshots the store holds min(k, 3)
\* entries; when every run so far took one, they are those of the last
\* min(k, 3) runs, so the fourth run leaves the first run's entry deleted.
StoreHoldsLastThree ==
    /\ Cardinality(history) = (IF nSaved < 3 THEN nSaved ELSE 3)
    /\ nSaved = runs =>
          {e.created : e \in history} = {k \in 1..runs : k > runs - 3}

\* Four runs, four snapshots, the invocation over.
FourRunsSaved == runs = 4 /\ nSaved = 4 /\ pc = "idle"

MergeIsCollisionFree ==
    pc = "generate" =>
        Cardinality(DOMAIN targetHistory.files) =
            Cardinality(UNION {{<<e.name, f>> : f \in e.files} :
                                   e \in history})

\* mergeHistory has run on entries that hold a file of the same name.
MergedSameFileNames ==
    /\ pc = "generate"
    /\ \E e1, e2 \in history : e1 # e2 /\ e1.files \cap e2.files # {}

\* --------------------------------------------------------------- redaction
\* C6: in every run the Redactor executes after the runner has written the
\* artifacts and before mergeHistory, report generation, deployment and
\* notification start.
RedactorRunsBeforeMerge ==
    \A i \in 1..Len(trace) :
        trace[i] \in {"merge", "generate", "generate-failed", "save",
                      "deploy", "deploy-failed", "notify"}
        => \E j \in 1..(i - 1) :
              /\ trace[j] = "sanitize"
              /\ \E k \in 1..(j - 1) : trace[k] = "newman"

\* The same order, for the scripts that have a Redactor.
RedactorOrderWherePresent == variant \in RedactingVariants => RedactorRunsBeforeMerge

\* C7: once the Redactor is over, no artifact that goes into the report, the
\* store or the deployment holds a secret the runner wrote, also when the
\* Redactor met an error.
NoSecretAfterRedactor ==
    secret # <<>> =>
        /\ pc \in {"generate", "save", "deploy", "notify"}
              => ~Contains(artifact, secret)
        /\ ~Contains(published, secret)

\* C8: redacting an already redacted artifact changes nothing.
RedactorIdempotent ==
    [][(pc = "redactor" /\ passes >= 1) => artifact' = artifact]_vars

\* C9: when a redaction pattern captures the value, the redacted output has
\* the marker in the value's place and the secret occurs nowhere else in
\* it, also when the value occurs in the matched key text.
MarkerReplacesValue ==
    LET ps == RedactorPatterns(variant)
        text == Render(input)
        from == Len(text) - Len(AfterValue(input)) - Len(secret) + 1
        to == Len(text) - Len(AfterValue(input)) + 1
        captured ==
            \E k \in 1..Len(ps) :
                LET ms == FindAll(ps[k].items, text, 1)
                IN \E j \in 1..Len(ms) :
                      /\ ms[j][ps[k].g1] <= from
                      /\ to <= ms[j][ps[k].g2 + 1]
        slot == Marker \o AfterValue(input)
    IN (pc = "redactor" /\ passes = 1 /\ secret # Marker /\ captured) =>
          /\ Len(artifact) >= Len(slot)
          /\ SubSeq(artifact, Len(artifact) - Len(slot) + 1, Len(artifact))
                = slot
          /\ ~Contains(input.key, secret) => ~Contains(artifact, secret)

\* --------------------------------------------------------------- exit code
\* C10: an invocation ends with exit code 0 exactly when the run completed
\* with no failed assertion and no fatal error, and with 1 otherwise: on
\* missing configuration, a failed fetch, a runner failure, a failed
\* assertion.
ExitCodeReflectsOutcome ==
    LET fatal == {"missing-config", "fetch-failed", "newman-failed"}
                 \cup (IF variant = "strict"
                       THEN {"generate-failed", "deploy-failed"} ELSE {})
    IN (pc = "idle" /\ exitCode # -1) =>
          exitCode = (IF log \cap fatal # {} \/ failed > 0 THEN 1 ELSE 0)

\* ---------------------------------------------------------- error handling
\* C11: when a value the script needs from the environment is missing, the
\* process exits with code 1 before any network request is issued.
ConfigCheckedBeforeNetwork ==
    LET needed == IF variant = "strict" THEN Required(variant)
                  ELSE EnvNames(variant)
    IN (runs >= 1 /\ ~(needed \subseteq env)) =>
          /\ \A i \in 1..Len(trace) :
                trace[i] \notin {"fetch", "newman", "deploy", "deploy-failed",
                                 "notify"}
          /\ pc = "idle" => exitCode = 1

\* C12: a failed collection fetch is fatal: the runner is not invoked, no
\* report is generated, no history entry is created, nothing is deployed or
\* notified, and the exit code is 1.
FetchFailureIsFatal ==
    "fetch-failed" \in log =>
        /\ pc = "idle" /\ exitCode = 1
        /\ trace = <<"clean", "fetch">>
        /\ \A f \in results : f.name # "result"
        /\ \A e \in history : e.created < clock
        /\ published = <<>>
        /\ slack = "none"

\* A fetch failure in a run that follows a run with a snapshot.
FetchFailedAfterSavedRun ==
    "fetch-failed" \in log /\ history # {} /\ pc = "idle"

\* C13: a runner error is fatal: no report generation, snapshot, deployment
\* or notification, and the exit code is 1.
RunnerFailureIsFatal ==
    "newman-failed" \in log =>
        /\ pc = "idle" /\ exitCode = 1
        /\ trace = <<"clean", "fetch">>
        /\ \A e \in history : e.created < clock
        /\ published = <<>>
        /\ slack = "none"

\* C14: failed assertions do not abort the pipeline: the later phases are
\* still attempted, and the process exits only after them, with code 1.
FailedAssertionsExitOne ==
    (failed > 0 /\ \E i \in 1..Len(trace) : trace[i] = "newman") =>
        /\ pc # "idle" => exitCode = -1
        /\ pc = "idle" =>
              /\ exitCode = 1
              /\ \E i \in 1..Len(trace) :
                    trace[i] \in {"generate", "generate-failed"}
              /\ log \cap {"generate-failed", "deploy-failed",
                           "deploy-skipped", "missing-config"} = {}
                    => \E i \in 1..Len(trace) : trace[i] = "deploy"

\* C15, as stated: a failure of a post-processing phase is caught and logged
\* and the exit code is 1 exactly when an assertion failed.
PostProcessingKeepsExitCode ==
    LET happened == {trace[i] : i \in 1..Len(trace)}
                    \cap {"generate-failed", "deploy-failed"}
    IN /\ happened \subseteq log
       /\ (pc = "idle" /\ exitCode # -1
           /\ (happened # {} \/ "sanitize-error" \in log))
          => exitCode = (IF failed > 0 THEN 1 ELSE 0)

\* C15, as the scripts behave: a failure of a post-processing phase is
\* caught and logged.  A Redactor failure changes nothing else.  A failure
\* of report generation or deployment is fatal (exit code 1) in the promise
\* script; in the other scripts it leaves the exit code what it is without
\* the failure: 0 in the legacy script, else 1 exactly when an assertion
\* failed.
PostProcessingFailureExit ==
    LET happened == {trace[i] : i \in 1..Len(trace)}
                    \cap {"generate-failed", "deploy-failed"}
    IN /\ happened \subseteq log
       /\ (pc = "idle" /\ exitCode # -1
           /\ (happened # {} \/ "sanitize-error" \in log))
          => exitCode = (CASE variant = "strict" /\ happened # {} -> 1
                           [] variant = "legacy" -> 0
                           [] OTHER -> IF failed > 0 THEN 1 ELSE 0)

\* A run without failed assertions whose report generation failed has ended.
GenerationFailedRunEnded ==
    /\ pc = "idle" /\ exitCode # -1 /\ failed = 0
    /\ "generate-failed" \in log
    /\ \E i \in 1..Len(trace) : trace[i] = "generate-failed"

\* C16: when the generated report has no history folder,
\* saveCurrentRunHistory creates no entry, deletes none and reports no
\* error, and the run goes on to the deployment.
SaveWithoutHistoryIsNoOp ==
    [][(pc = "save" /\ ~report.hasHistory) =>
          /\ history' = history
          /\ log' = log
          /\ exitCode' = exitCode
          /\ pc' = "deploy"]_vars

\* saveCurrentRunHistory has returned early on a store that holds entries.
SavedNothingOnFullStore ==
    /\ pc = "deploy"
    /\ ~report.hasHistory
    /\ history # {}
    /\ trace[Len(trace)] = "save"

\* C17: cleanAllureResults removes every entry of allure-results but
\* 'history', leaves 'history' and the .history store as they are, and is
\* over before the runner writes: from then on, and so when the report is
\* generated, allure-results holds no file of an earlier run.
CleanLeavesOnlyHistory ==
    [][/\ (pc = "idle" /\ pc' = "fetch") =>
             /\ history' = history
             /\ targetHistory'.files = targetHistory.files
             /\ targetHistory.exists => targetHistory'.exists
             /\ {e \in results : e.name = "history"} \subseteq results'
             /\ \A e \in results' \ results : e.run = runs'
             /\ \A e \in results \cap results' : e.name = "history"
       /\ trace' # <<>> =>
             \A e \in results' : e.name # "history" => e.run = runs']_vars

\* The report of a later run is about to be generated from its own results.
SecondRunResultsOnly ==
    /\ pc = "generate"
    /\ runs >= 2
    /\ nSaved >= 1
    /\ [name |-> "result", run |-> runs] \in results

\* C18: when the Redactor fails in a run, a message is logged in that run.
RedactorFailureIsLogged ==
    (passes = 0 /\ \E i \in 1..Len(trace) : trace[i] = "sanitize")
        => "sanitize-error" \in log

\* The Redactor failed and the run went on to deploy.
RedactorFailedRunDeployed ==
    /\ passes = 0
    /\ \E i \in 1..Len(trace) : trace[i] = "sanitize"
    /\ \E i \in 1..Len(trace) : trace[i] = "deploy"

\* C19: every quoted value whose key contains a sensitive name, whatever
\* the letter case, is replaced by the marker, as a parameter of a result
\* file and as a key/value pair of attachment text.
SensitiveKeysMasked ==
    (pc = "redactor" /\ passes >= 1 /\ isSensitiveField(input.key)
     /\ input.value # Marker) =>
        /\ param.value = Marker
        /\ input.style = "json" =>
              LET slot == Marker \o <<"\"">>
              IN /\ Len(artifact) >= Len(slot)
                 /\ SubSeq(artifact, Len(artifact) - Len(slot) + 1,
                           Len(artifact)) = slot

\* C20: "token_count": 42, a field that is no secret, comes out of the
\* redaction as it went in, in attachment text and as a parameter.
NonSecretFieldUntouched ==
    (pc = "redactor" /\ passes >= 1
     /\ input.key = SENSITIVE_PATTERNS[11] \o <<"_", "c", "o", "u", "n", "t">>
     /\ input.value = <<"4", "2">>
     /\ input.style = "jsonbare") =>
        /\ artifact = Render(input)
        /\ param = [name |-> input.key, value |-> input.value]

\* C21: redaction changes only the matched value: the text before the
\* value (key spelling and letter case, quotes, separator, whitespace) and
\* the text after it are the same before and after redaction.
RedactionKeepsLayout ==
    (pc = "redactor" /\ passes >= 1) =>
        LET before == BeforeValue(input)
            after == AfterValue(input)
        IN /\ Len(artifact) >= Len(before) + Len(after)
           /\ SubSeq(artifact, 1, Len(before)) = before
           /\ SubSeq(artifact, Len(artifact) - Len(after) + 1, Len(artifact))
                 = after

\* ------------------------------------------------------ filesystem errors
\* C22: a run in which a filesystem operation of mergeHistory or
\* saveCurrentRunHistory failed is logged and never ends with exit code 0;
\* merging from an empty .history store is no error.
FsFailureIsFatal ==
    /\ (log \cap {"merge-failed", "save-failed"} # {}
        /\ pc = "idle" /\ exitCode # -1) => exitCode = 1
    /\ \A i \in 1..Len(trace) :
          trace[i] \in {"merge-failed", "save-failed"} => trace[i] \in log
    /\ (pc = "generate" /\ history = {}) =>
          /\ "merge-failed" \notin log
          /\ targetHistory = [exists |-> TRUE, files |-> <<>>]

\* ------------------------------------------------------------ sequencing
\* The place of a phase in the order of a run.
PhaseRank(ph) ==
    CASE ph = "clean" -> 0
      [] ph = "fetch" -> 1
      [] ph = "newman" -> 2
      [] ph = "sanitize" -> 3
      [] ph \in {"merge", "merge-failed"} -> 4
      [] ph \in {"generate", "generate-failed"} -> 5
      [] ph \in {"save", "save-failed"} -> 6
      [] ph \in {"deploy", "deploy-failed"} -> 7
      [] ph = "notify" -> 8

\* C23: the phases of a run are executed one after another in the order
\* fetch, tests, redaction, report, snapshot, deployment, notification, and
\* the process does not exit while a request it started, such as the Slack
\* webhook request, is still in flight.
NoExitWhileInFlight ==
    /\ \A i, j \in 1..Len(trace) :
          i < j => PhaseRank(trace[i]) < PhaseRank(trace[j])
    /\ slack # "aborted"
    /\ pc = "idle" => slack # "inflight"

\* C24: a notification request is issued only in a run whose deployment
\* has completed successfully: never in a run in which report generation
\* or deployment failed.
NotifiedOnlyAfterDeploy ==
    (slack # "none" \/ \E i \in 1..Len(trace) : trace[i] = "notify") =>
        /\ \E i \in 1..Len(trace) : trace[i] = "deploy"
        /\ \A i \in 1..Len(trace) :
              trace[i] \notin {"generate-failed", "deploy-failed"}
        /\ log \cap {"generate-failed", "deploy-failed"} = {}

\* The webhook request of a run has been issued, after its deployment.
NotificationIssued ==
    /\ slack = "inflight"
    /\ Len(trace) >= 2
    /\ trace[Len(trace)] = "notify"
    /\ trace[Len(trace) - 1] = "deploy"

\* C25: the marker is never matched as a sensitive value: on text whose
\* value is already the marker no pattern of the Redactor matches, and the
\* text is left as it is.
MarkerNeverMatched ==
    (pc = "redactor" /\ passes >= 1 /\ input.value = Marker) =>
        LET ps == RedactorPatterns(variant)
        IN /\ \A k \in 1..Len(ps) : FindAll(ps[k].items, artifact, 1) = <<>>
           /\ artifact = Render(input)

\* ------------------------------------------------------------ immutability
\* C26: a run creates at most one entry, copied out of the report's history
\* folder; an entry of .history, once written, keeps its name, files and
\* time in every later step of every run, and it disappears only in
\* saveCurrentRunHistory, and only when the store would hold more than 3.
EntriesImmutable ==
    [][/\ \A e \in history :
             \/ e \in history'
             \/ /\ e.name \notin {x.name : x \in history'}
                /\ pc = "save" /\ report.hasHistory
                /\ Cardinality(history) + 1 > 3
       /\ \A e \in history' \ history :
             /\ pc = "save"
             /\ e.name = Timestamp(clock) /\ e.created = clock
             /\ e.files = report.history
       /\ \A e1, e2 \in history' : e1.created = e2.created => e1 = e2]_vars

\* The entry of the second run has come unchanged through two later runs
\* that took a snapshot, the second of which pruned the first run's entry.
EntryOutlivedTwoRuns ==
    /\ pc = "idle" /\ runs = 4 /\ nSaved = 4
    /\ \E e \in history :
          /\ e.created = 2 /\ e.time = 2 /\ e.name = Timestamp(2)
          /\ e.files = {"history.json"}
    /\ \E e \in history :
          e.created = 4 /\ e.files = {"history.json", "history-trend.json"}
    /\ \A e \in history : e.created # 1

\* ------------------------------------------------------------ termination
\* C27: every started run eventually ends the process, on every path, given
\* that every external call eventually returns.
RunTerminates == (pc # "idle") ~> (pc = "idle" /\ exitCode # -1)

\* A run has ended without a call of process.exit, after a runner error.
EndedAfterRunnerError ==
    /\ pc = "idle" /\ exitCode # -1
    /\ "newman-failed" \in log
    /\ trace = <<"clean", "fetch">>

\* C28: mergeHistory leaves the .history store as it is, entries and
\* files; all it changes is allure-results/history, which it makes anew.
MergeLeavesStore ==
    [][pc = "merge" =>
          /\ history' = history
          /\ targetHistory'.exists
          /\ {e \in results' : e.name # "history"}
                = {e \in results : e.name # "history"}
          /\ report' = report /\ artifact' = artifact /\ param' = param
          /\ published' = published /\ exitCode' = exitCode]_vars

\* mergeHistory has copied out of a store of two entries, which are there.
MergedStoreIntact ==
    /\ pc = "generate"
    /\ trace[Len(trace)] = "merge"
    /\ Cardinality(history) = 2
    /\ Cardinality(DOMAIN targetHistory.files) >= 2

\* C29: in the callback scripts a run whose report generation failed
\* executes neither saveCurrentRunHistory nor the deployment; as the store
\* changes in saveCurrentRunHistory only, the run leaves .history as it
\* found it, and it publishes nothing.
GenerateFailureSkipsSave ==
    [][/\ history' # history =>
             (pc = "save" /\ trace' = Append(trace, "save"))
       /\ (variant' \in CallbackVariants /\ "generate-failed" \in log') =>
             /\ \A i \in 1..Len(trace') :
                   trace'[i] \notin {"save", "deploy", "deploy-failed",
                                     "notify"}
             /\ \A e \in history' : e.created < clock'
             /\ published' = <<>>
             /\ pc' \in {"exit", "idle"}]_vars

\* A callback script's run with a failed report generation has ended, on a
\* store that earlier runs have filled.
GenerationFailedStoreKept ==
    /\ variant \in CallbackVariants
    /\ pc = "idle" /\ exitCode # -1
    /\ "generate-failed" \in log
    /\ runs >= 3
    /\ Cardinality(history) = 2

\* -------------------------------------------------------------- trend.json
\* C30: from an absent trend.json, after any sequence of runs of
\* generate-allure.js the file holds at most 10 records, in chronological
\* order; a successful run puts its own record last and keeps, in their
\* order, the most recent of the records that were there.
TrendHoldsLastTen ==
    [][/\ Len(trend') <= 10
       /\ \A i \in 1..(Len(trend') - 1) :
             \E a \in 1..clock' : \E b \in (a + 1)..clock' :
                /\ trend'[i].date = toLocaleString(a)
                /\ trend'[i + 1].date = toLocaleString(b)
       /\ exitCode' = 0 =>
             /\ Len(trend') = (IF Len(trend) < 10 THEN Len(trend) + 1 ELSE 10)
             /\ trend'[Len(trend')].date = toLocaleString(clock')
             /\ \A i \in 1..(Len(trend') - 1) :
                   trend'[i] = trend[Len(trend) - (Len(trend') - 1) + i]
       /\ exitCode' # 0 => trend' = trend]_vars

\* The eleventh successful run has pushed the first run's record out.
TrendFullFirstDropped ==
    /\ Len(trend) = 10
    /\ runs >= 11
    /\ trend[1].date # toLocaleString(1)
    /\ trend[10].date = toLocaleString(clock)

====
